---- MODULE Spec2Model ----
(***************************************************************************)
(* A model of the Carnival boilerplate scenes: the three ExperimentalScene *)
(* files (the component based scene and the older scene of src/scene.js,   *)
(* and the oldest scene of src/unnamed/part_000), run by the FCEngine      *)
(* framework as the initialisation procedure comment of src/scene.js       *)
(* describes it.  The framework itself is not part of the repository: the  *)
(* steps it performs (setup, promise joining, the frame loop, movePlayerTo)*)
(* are modelled from their documented contract.                            *)
(*                                                                         *)
(* Lengths are in tenths of a metre, colours in tenths, angles in          *)
(* ten-thousandths of a radian (floor), times in milliseconds.             *)
(***************************************************************************)
EXTENDS Integers, Sequences, FiniteSets, TLC

(* ------------------------------ bounds --------------------------------- *)

\* The number of frames in which the buttons of the gamepads are followed.
MaxPolls == 3

\* The number of assets the prerequisites manifest declares.
MaxAssets == 2

\* The number of frames the frame loop renders.
MaxFrames == 1

\* Milliseconds between two frames.
FrameInterval == 3500

\* The last timestamp a revolving cursor is followed to, in milliseconds.
MaxTimePoint == 14500

\* The longest time between two invocations of the revolve behaviour.
MaxDelta == 2

(* ------------------------- program constants --------------------------- *)

\* The cursor makes one turn in 7000 ms.
RevolvePeriod == 7000

\* Math.PI*2 in ten-thousandths of a radian.
TwoPi == 62832

Variants == {"component", "older", "oldest"}

\* The assets scene.prerequisites declares, by number.
Manifest == 1..MaxAssets

\* A property an object literal does not have.
Undefined == <<>>

\* JavaScript truthiness of an array-or-undefined property.
Truthy(v) == v # Undefined

(* ------------------------------- state --------------------------------- *)

VARIABLES
    variant,          \* which scene file is window.vrScene
    loads,            \* Manifest -> "idle" | "pending" | "resolved" | "rejected"
    rejections,       \* history: the rejected loads, in the order they failed
    readiness,        \* the promise of loadPrerequisites
    rejectedWith,     \* the load readiness was rejected with (0: none)
    prereqs,          \* the promise setupPrereqs returned
    setupSceneCalls,  \* how often setupScene was invoked
    preparing,        \* objects whose prepare()/load promise is pending
    scene,            \* the fields of the scene instance
    now,              \* the timestamp of the current frame
    frames,           \* frames rendered so far
    invoked,          \* the behaviours the last frame invoked, per object
    halted            \* an error escaped a behaviour: the frame loop stopped

vars == <<variant, loads, rejections, readiness, rejectedWith, prereqs,
          setupSceneCalls, preparing, scene, now, frames, invoked, halted>>

(* --------------------------- scene data -------------------------------- *)

\* scene.lightPool.plainWhiteAmbientOverhead.
plainWhiteAmbientOverhead(v) ==
    [position |-> <<0, 30, 10, 10>>,
     diffuse  |-> IF v = "component" THEN <<7, 7, 6>> ELSE <<8, 8, 7>>]

red   == [position |-> <<0, 20, 0, 0>>,   diffuse |-> <<8, 0, 0>>]
green == [position |-> <<20, 20, 0, 0>>,  diffuse |-> <<0, 8, 0>>]
blue  == [position |-> <<-20, 20, 0, 0>>, diffuse |-> <<0, 0, 8>>]

\* scene.lights as the constructor sets it.
SceneLights(v) ==
    CASE v = "component" -> <<plainWhiteAmbientOverhead(v), red, green, blue>>
      [] v = "older"     -> <<plainWhiteAmbientOverhead(v), blue, green, red>>
      [] OTHER           -> <<plainWhiteAmbientOverhead(v)>>

\* scene.lights may be replaced by the developer (comment on scene.lights): a
\* list with a light that has no diffuse and one that has no position.
EditedLights(v) ==
    <<[position |-> <<0, 30, 50, 10>>, diffuse |-> Undefined],
      plainWhiteAmbientOverhead(v),
      [position |-> Undefined, diffuse |-> <<2, 2, 2>>]>>

\* The light lists a scene is run with: the list of its file and, for the
\* older scene, the edited one.
LightConfigs(v) ==
    IF v = "older" THEN {SceneLights(v), EditedLights(v)} ELSE {SceneLights(v)}

\* $hidden / _hidden / _hidden_beneath_floor: where the cursor is created.
Hidden(v) ==
    CASE v = "component" -> <<0, -100, 0>>
      [] v = "older"     -> <<0, -1000, 0>>
      [] OTHER           -> <<0, -10, 0>>

\* The player starts at the centre of the stage.
Origin == <<0, 0, 0>>

\* Points of the floor the controller ray can hit.
CollisionPoints == {<<10, 0, 20>>, <<-30, 0, 40>>}

\* The collisions a ray projector hands to a collider's callback: POI is
\* negative or not, collisionPoint a point of the floor.
Collisions ==
    {[POI |-> -1, collisionPoint |-> p] : p \in CollisionPoints}
        \cup {[POI |-> 1, collisionPoint |-> <<10, 0, 20>>]}

NoCollision == [POI |-> 0, collisionPoint |-> Undefined]

\* The seven pieces of chrome of a controller in the older scene.
ChromeParts == <<"body", "button_menu", "button_sys", "trigger", "trackpad",
                 "grip_l", "grip_r">>

Chrome(c) == {<<c, ChromeParts[i]>> : i \in 1..Len(ChromeParts)}

\* The objects setupScene adds to the scene before it returns.
SyncObjects(v) ==
    CASE v = "component" -> {}
      [] v = "older"     -> {<<"cursor">>, <<"floor">>, <<"raft">>}
                                \cup Chrome("c0") \cup Chrome("c1")
      [] OTHER           -> {<<"cursor">>, <<"floor">>, <<"raft">>,
                             <<"ctrl0">>, <<"ctrl1">>}

\* The objects setupScene adds when a promise resolves: prepare().then($addToScene)
\* in the component scene, the glyph and icon loads in the older scene.
AsyncObjects(v) ==
    CASE v = "component" -> {<<"floor">>, <<"raft">>, <<"cursor">>, <<"c0">>,
                             <<"c1">>, <<"text1">>, <<"text2">>}
      [] v = "older"     -> {<<"letters", "#virtualreality">>,
                             <<"letters", "/meta4vr">>, <<"fbIcon">>}
      [] OTHER           -> {}

\* The objects of setupScene in the order it constructs them.
ObjectList(v) ==
    CASE v = "component" -> <<<<"floor">>, <<"raft">>, <<"cursor">>, <<"c0">>,
                              <<"c1">>, <<"text1">>, <<"text2">>>>
      [] v = "older"     -> <<<<"cursor">>, <<"floor">>, <<"raft">>>>
                                \o [i \in 1..Len(ChromeParts) |-> <<"c0", ChromeParts[i]>>]
                                \o [i \in 1..Len(ChromeParts) |-> <<"c1", ChromeParts[i]>>]
                                \o <<<<"letters", "#virtualreality">>,
                                      <<"letters", "/meta4vr">>, <<"fbIcon">>>>
      [] OTHER           -> <<<<"cursor">>, <<"floor">>, <<"raft">>,
                              <<"ctrl0">>, <<"ctrl1">>>>

\* The label an object is constructed with ("" when it has none).
\* Labels in which both controllers are configured as 'c0'.
LabelShared(v, o) ==
    IF Len(o) = 1 /\ o[1] \in {"floor", "raft", "cursor", "c0", "c1", "text1", "text2"}
    THEN (IF o[1] = "c1" THEN "c0" ELSE o[1]) ELSE ""

Label(v, o) ==
    IF Len(o) = 1 /\ o[1] \in {"floor", "raft", "cursor", "c0", "c1", "text1", "text2"}
    THEN o[1] ELSE ""

\* Behaviors with the first two entries of c0's list exchanged.
BehaviorsMisordered(v, o) ==
    CASE v = "component" /\ o = <<"raft">>   -> <<"followPlayer">>
      [] v = "component" /\ o = <<"cursor">> -> <<"revolve">>
      [] v = "component" /\ o = <<"c0">>     -> <<"rayProjector", "tracker", "buttonHandler">>
      [] v = "component" /\ o = <<"c1">>     -> <<"tracker">>
      [] v # "component" /\ o = <<"cursor">> -> <<"revolve">>
      [] v = "older" /\ o = <<"c0", "body">> -> <<"rayProjector", "buttonHandlingTracker">>
      [] v = "older" /\ o = <<"c1", "body">> -> <<"buttonHandlingTracker">>
      [] v = "older" /\ Len(o) = 2 /\ o[1] \in {"c0", "c1"} -> <<"tracker">>
      [] v = "oldest" /\ o = <<"ctrl0">>     -> <<"rayProjector", "buttonHandlingTracker">>
      [] v = "oldest" /\ o = <<"ctrl1">>     -> <<"buttonHandlingTracker">>
      [] OTHER -> <<>>

\* Behaviours in which buildController gives the primary behaviours to the
\* second chrome object of controller 0 as well.
BehaviorsTwoPrimary(v, o) ==
    CASE v = "component" /\ o = <<"raft">>   -> <<"followPlayer">>
      [] v = "component" /\ o = <<"cursor">> -> <<"revolve">>
      [] v = "component" /\ o = <<"c0">>     -> <<"tracker", "rayProjector", "buttonHandler">>
      [] v = "component" /\ o = <<"c1">>     -> <<"tracker">>
      [] v # "component" /\ o = <<"cursor">> -> <<"revolve">>
      [] v = "older" /\ o = <<"c0", "body">> -> <<"buttonHandlingTracker", "rayProjector">>
      [] v = "older" /\ o = <<"c0", "button_menu">> ->
             <<"buttonHandlingTracker", "rayProjector">>
      [] v = "older" /\ o = <<"c1", "body">> -> <<"buttonHandlingTracker">>
      [] v = "older" /\ Len(o) = 2 /\ o[1] \in {"c0", "c1"} -> <<"tracker">>
      [] v = "oldest" /\ o = <<"ctrl0">>     -> <<"buttonHandlingTracker", "rayProjector">>
      [] v = "oldest" /\ o = <<"ctrl1">>     -> <<"buttonHandlingTracker">>
      [] OTHER -> <<>>

\* Behaviours in which controller 1 carries a ray projector as well.
BehaviorsBothProject(v, o) ==
    CASE v = "component" /\ o = <<"raft">>   -> <<"followPlayer">>
      [] v = "component" /\ o = <<"cursor">> -> <<"revolve">>
      [] v = "component" /\ o = <<"c0">>     -> <<"tracker", "rayProjector", "buttonHandler">>
      [] v = "component" /\ o = <<"c1">>     -> <<"tracker", "rayProjector">>
      [] v # "component" /\ o = <<"cursor">> -> <<"revolve">>
      [] v = "older" /\ o = <<"c0", "body">> -> <<"buttonHandlingTracker", "rayProjector">>
      [] v = "older" /\ o = <<"c1", "body">> -> <<"buttonHandlingTracker", "rayProjector">>
      [] v = "older" /\ Len(o) = 2 /\ o[1] \in {"c0", "c1"} -> <<"tracker">>
      [] v = "oldest" /\ o = <<"ctrl0">>     -> <<"buttonHandlingTracker", "rayProjector">>
      [] v = "oldest" /\ o = <<"ctrl1">>     -> <<"buttonHandlingTracker", "rayProjector">>
      [] OTHER -> <<>>

\* The behaviours attached to an object, in attachment order.
Behaviors(v, o) ==
    CASE v = "component" /\ o = <<"raft">>   -> <<"followPlayer">>
      [] v = "component" /\ o = <<"cursor">> -> <<"revolve">>
      [] v = "component" /\ o = <<"c0">>     -> <<"tracker", "rayProjector", "buttonHandler">>
      [] v = "component" /\ o = <<"c1">>     -> <<"tracker">>
      [] v # "component" /\ o = <<"cursor">> -> <<"revolve">>
      [] v = "older" /\ o = <<"c0", "body">> -> <<"buttonHandlingTracker", "rayProjector">>
      [] v = "older" /\ o = <<"c1", "body">> -> <<"buttonHandlingTracker">>
      [] v = "older" /\ Len(o) = 2 /\ o[1] \in {"c0", "c1"} -> <<"tracker">>
      [] v = "oldest" /\ o = <<"ctrl0">>     -> <<"buttonHandlingTracker", "rayProjector">>
      [] v = "oldest" /\ o = <<"ctrl1">>     -> <<"buttonHandlingTracker">>
      [] OTHER -> <<>>

\* The gamepad a controller object listens to.
GamepadIndex(o) == IF o[1] \in {"c0", "ctrl0"} THEN 0 ELSE 1

(* ------------------------ the scene's methods -------------------------- *)

\* The scene instance the constructor leaves.  cursor holds the fields of the
\* cursor object setupScene builds; recorded is history: the last point the floor
\* collider's callback wrote into the cursor.
NewScene(v, lightList) ==
    [objects        |-> {},
     lights         |-> lightList,
     lightsShown    |-> FALSE,
     lamps          |-> <<>>,
     cursor         |-> [pos |-> Hidden(v), hidden |-> FALSE,
                         drawableHidden |-> FALSE, orientation |-> <<0, 0, 0>>],
     playerLocation |-> Origin,
     raftPos        |-> Origin,
     thrown         |-> FALSE,
     recorded       |-> Undefined,
     gamepads       |-> <<[grip |-> FALSE, menu |-> FALSE],
                          [grip |-> FALSE, menu |-> FALSE]>>]

\* scene.getObjectByLabel(label) finds an object.
HasObjectByLabel(v, s, label) == \E o \in s.objects : Label(v, o) = label

\* An uncaught TypeError: the call changes nothing more.
Throw(s) == [s EXCEPT !.thrown = TRUE]

\* Framework: scene.movePlayerTo(pos) / scene.moveRaftAndPlayerTo(pos).
movePlayerTo(v, s, pos) ==
    IF v = "component"
    THEN [s EXCEPT !.playerLocation = pos]
    ELSE [s EXCEPT !.playerLocation = pos, !.raftPos = pos]

\* A teleport that puts the player one unit above the cursor.
teleportAboveCursor(v, s) ==
    IF ~HasObjectByLabel(v, s, "cursor")
    THEN Throw(s)
    ELSE movePlayerTo(v, s, <<s.cursor.pos[1], s.cursor.pos[2] + 1, s.cursor.pos[3]>>)

\* A teleport that tests the lookup and does nothing without a cursor.
teleportGuarded(v, s) ==
    IF ~HasObjectByLabel(v, s, "cursor")
    THEN s
    ELSE movePlayerTo(v, s, s.cursor.pos)

teleportUserToCursor(v, s) ==
    IF ~HasObjectByLabel(v, s, "cursor")
    THEN Throw(s)
    ELSE movePlayerTo(v, s, s.cursor.pos)

\* The callback with the indices of y and z exchanged when it copies the point.
moveCursorTransposed(v, s, collision) ==
    IF ~HasObjectByLabel(v, s, "cursor")
    THEN Throw(s)
    ELSE IF v = "component" /\ collision.POI >= 0
    THEN [s EXCEPT !.cursor.hidden = TRUE]
    ELSE [s EXCEPT !.cursor.drawableHidden = FALSE,
                   !.cursor.pos = <<collision.collisionPoint[1],
                                    collision.collisionPoint[3],
                                    collision.collisionPoint[2]>>,
                   !.recorded = collision.collisionPoint]

\* floorCollider.callback.
moveCursorToCollisionPoint(v, s, collision) ==
    IF ~HasObjectByLabel(v, s, "cursor")
    THEN Throw(s)
    ELSE IF v = "component"
    THEN IF collision.POI < 0
         THEN [s EXCEPT !.cursor.drawableHidden = FALSE,
                        !.cursor.pos = <<collision.collisionPoint[1],
                                         collision.collisionPoint[2],
                                         collision.collisionPoint[3]>>,
                        !.recorded = collision.collisionPoint]
         ELSE [s EXCEPT !.cursor.hidden = TRUE]
    ELSE [s EXCEPT !.cursor.pos = <<collision.collisionPoint[1],
                                    collision.collisionPoint[2],
                                    collision.collisionPoint[3]>>,
                   !.recorded = collision.collisionPoint]

\* A cuboid placed with the y and z of the light exchanged.
LampTransposed(myLight) ==
    [pos |-> <<myLight.position[1], myLight.position[3], myLight.position[2]>>,
     texture |-> myLight.diffuse, groupLabel |-> "lamps"]

\* new FCShapes.SimpleCuboid(position of the light, ..., groupLabel 'lamps').
Lamp(myLight) ==
    [pos |-> <<myLight.position[1], myLight.position[2], myLight.position[3]>>,
     texture |-> myLight.diffuse, groupLabel |-> "lamps"]

\* The loop of switchLights over this.lights, from index i on: the lamps it adds.
RECURSIVE AddLamps(_, _)
AddLamps(lights, i) ==
    IF i > Len(lights) THEN <<>>
    ELSE IF ~(Truthy(lights[i].diffuse) /\ Truthy(lights[i].position))
    THEN AddLamps(lights, i + 1)
    ELSE <<Lamp(lights[i])>> \o AddLamps(lights, i + 1)

\* scene.addObject(c) for each lamp c.
addLamps(s, lamps) == [s EXCEPT !.lamps = @ \o lamps]

\* switchLights without its call of removeObjectsInGroup.
keepObjectsInGroup(s) == s

\* scene.removeObjectsInGroup('lamps').
\* A removal that takes every object of the scene, whatever its group.
removeObjectsOfAllGroups(s) == [s EXCEPT !.lamps = <<>>, !.objects = {}]

removeObjectsInGroup(s) == [s EXCEPT !.lamps = <<>>]

\* The arguments switchLights documents.
LightArgs == {"true", "false", "undefined"}

\* The state expression without the toggle: state || state === undefined.
SwitchStateNoToggle(s, state) == (state = "true") \/ (state = "undefined")

\* The state expression without the test for undefined: state || !this.lightsShown.
SwitchStateNoUndefinedTest(s, state) == (state = "true") \/ ~s.lightsShown

\* state || (state === undefined && !this.lightsShown)
SwitchState(s, state) ==
    (state = "true") \/ (state = "undefined" /\ ~s.lightsShown)

\* switchLights(state) of the component scene, showLights(state) of the older.
switchLights(s, state) ==
    LET st == SwitchState(s, state)
        s1 == removeObjectsInGroup([s EXCEPT !.lightsShown = st])
    IN  IF st THEN addLamps(s1, AddLamps(s.lights, 1)) ELSE s1

\* The y orientation reduced to one turn: (Math.PI*2*(timePoint/7000)) % (Math.PI*2).
RevolveYWrapped(timePoint) == ((TwoPi * timePoint) \div RevolvePeriod) % TwoPi

\* The y orientation the revolve behaviour computes: Math.PI*2*(timePoint/7000).
RevolveY(timePoint) == (TwoPi * timePoint) \div RevolvePeriod

\* The cursor's revolve behaviour.
revolve(s, timePoint) ==
    [s EXCEPT !.cursor.orientation = <<0, RevolveY(timePoint), 0>>]

\* A followPlayer that leaves the raft where it is.
raftPosUpdateIdle(s, timePoint) == s

\* A followPlayer that drags the cursor along with the raft.
raftPosUpdateDragsCursor(s, timePoint) ==
    [s EXCEPT !.raftPos = <<s.playerLocation[1], s.playerLocation[2],
                            s.playerLocation[3]>>,
              !.cursor.pos = <<s.playerLocation[1], s.playerLocation[2],
                               s.playerLocation[3]>>]

\* The raft's followPlayer behaviour.
raftPosUpdateBehavior(s, timePoint) ==
    [s EXCEPT !.raftPos = <<s.playerLocation[1], s.playerLocation[2],
                            s.playerLocation[3]>>]

(* --------------------------- behaviours -------------------------------- *)

\* What a gamepad reports in a frame: whether grip and menu were pressed.
PadStates == [grip : BOOLEAN, menu : BOOLEAN]

NoPress == [grip |-> FALSE, menu |-> FALSE]

\* What the devices report in one frame.  Gamepad 1 drives nothing in the
\* component scene, where c1 carries a tracker alone; the callbacks of the older
\* scenes do not read POI.
Inputs(v) ==
    {i \in [collision : Collisions \cup {NoCollision}, pad0 : PadStates, pad1 : PadStates] :
        /\ v = "component" => i.pad1 = NoPress
        /\ v # "component" => i.collision.POI <= 0 /\ (i.collision.POI = 0 => i.collision = NoCollision)}

\* c0ButtonHandler: the trigger/action list, in its order.
c0ButtonHandler(v, s, pad) ==
    LET s1 == IF pad.grip THEN teleportUserToCursor(v, s) ELSE s
    IN  IF s1.thrown THEN s1
        ELSE IF pad.menu THEN switchLights(s1, "undefined") ELSE s1

\* buttonHandler of the older scenes, called for button 2 (grip) and 3 (menu).
buttonHandler(v, s, pad) ==
    LET s1 == IF pad.grip THEN teleportUserToCursor(v, s) ELSE s
    IN  IF s1.thrown THEN s1
        ELSE IF v = "older" /\ pad.menu THEN switchLights(s1, "undefined") ELSE s1

\* Framework: the ray projector tests its colliders and fires the callback of
\* one that reports a collision.
rayProjector(v, s, collision) ==
    IF collision = NoCollision THEN s
    ELSE moveCursorToCollisionPoint(v, s, collision)

\* One behaviour b of object o, invoked with timePoint.
Behave(v, s, o, b, timePoint, inp) ==
    LET pad == IF GamepadIndex(o) = 0 THEN inp.pad0 ELSE inp.pad1 IN
    CASE b = "followPlayer"          -> raftPosUpdateBehavior(s, timePoint)
      [] b = "revolve"               -> revolve(s, timePoint)
      [] b = "rayProjector"          -> rayProjector(v, s, inp.collision)
      [] b = "buttonHandler"         -> c0ButtonHandler(v, s, pad)
      [] b = "buttonHandlingTracker" -> buttonHandler(v, s, pad)
      [] OTHER                       -> s

\* The behaviours of the objects of order, object after object.
RECURSIVE Todo(_, _)
Todo(v, order) ==
    IF order = <<>> THEN <<>>
    ELSE LET o == Head(order) IN
         [i \in 1..Len(Behaviors(v, o)) |-> <<o, Behaviors(v, o)[i]>>]
             \o Todo(v, Tail(order))

\* Framework: the frame loop invokes the behaviours one after the other, from
\* the i-th of todo on; an error a behaviour throws ends the frame.
RECURSIVE RunFrame(_, _, _, _, _, _)
RunFrame(v, st, todo, i, timePoint, inp) ==
    IF i > Len(todo) \/ st.scene.thrown THEN st
    ELSE CHOOSE r \in
             {RunFrame(v, nxt, todo, i + 1, timePoint, inp) :
                 nxt \in {[scene |-> Behave(v, st.scene, todo[i][1], todo[i][2], timePoint, inp),
                           log   |-> Append(st.log, <<todo[i][1], todo[i][2], timePoint>>)]}} :
             TRUE

\* The entries of a frame's log that belong to object o.
LogOf(log, o) ==
    LET Mine(e) == e[1] = o
        mine == SelectSeq(log, Mine)
    IN  [i \in 1..Len(mine) |-> <<mine[i][2], mine[i][3]>>]

\* The registered objects that carry a behaviour.
BehaviorObjects(v, s) == {o \in s.objects : Behaviors(v, o) # <<>>}

\* An object whose only behaviour is a tracker, which moves the object alone.
IsPassive(v, o) == Behaviors(v, o) = <<"tracker">>

\* All orders of the elements of a set.
Perms(S) ==
    {f \in [1..Cardinality(S) -> S] : \A i, j \in 1..Cardinality(S) : f[i] = f[j] => i = j}

\* The orders in which a frame may visit the objects that do more than track:
\* the framework promises no order.  The objects that only track are visited
\* after them.
FrameOrders(v, s) == Perms({o \in BehaviorObjects(v, s) : ~IsPassive(v, o)})

\* What a frame invoked on object o: r is the frame's outcome on the objects
\* of FrameOrders; a tracker alone is invoked unless an error ended the frame.
Invoked(v, r, o, timePoint) ==
    IF IsPassive(v, o)
    THEN IF r.scene.thrown THEN <<>> ELSE <<<<"tracker", timePoint>>>>
    ELSE LogOf(r.log, o)

(* ------------------------------ actions -------------------------------- *)

\* User code sets window.vrScene to a new Scene: the constructor has run.
Init ==
    /\ variant \in Variants
    /\ loads = [a \in Manifest |-> "idle"]
    /\ rejections = <<>>
    /\ readiness = "none"
    /\ rejectedWith = 0
    /\ prereqs = "none"
    /\ setupSceneCalls = 0
    /\ preparing = {}
    /\ scene \in {NewScene(variant, l) : l \in LightConfigs(variant)}
    /\ now = 0
    /\ frames = 0
    /\ invoked = <<>>
    /\ halted = FALSE

\* A join that settles with the first load to finish (Promise.race).
JoinFirst(promise, l, a) ==
    IF promise # "pending" THEN promise
    ELSE IF l[a] = "rejected" THEN "rejected"
    ELSE "fulfilled"

\* A join that waits for every load to settle and ignores the failures
\* (Promise.allSettled).
JoinSettled(promise, l, a) ==
    IF promise # "pending" THEN promise
    ELSE IF \A b \in DOMAIN l : l[b] \in {"resolved", "rejected"} THEN "fulfilled"
    ELSE "pending"

\* Framework: the promise of loadPrerequisites once the loads stand as l:
\* rejected with the first load that fails, fulfilled when all have resolved.
Join(promise, l, a) ==
    IF promise # "pending" THEN promise
    ELSE IF l[a] = "rejected" THEN "rejected"
    ELSE IF \A b \in DOMAIN l : l[b] = "resolved" THEN "fulfilled"
    ELSE "pending"

\* Framework: init() and setup() start; loadPrerequisites() starts every load
\* scene.prerequisites declares.
LoadPrerequisites ==
    /\ readiness = "none"
    /\ loads' = [a \in Manifest |-> "pending"]
    /\ readiness' = "pending"
    /\ UNCHANGED <<variant, rejections, rejectedWith, prereqs, setupSceneCalls,
                   preparing, scene, now, frames, invoked, halted>>

\* A load finishes.
LoadResolved(a) ==
    /\ loads[a] = "pending"
    /\ loads' = [loads EXCEPT ![a] = "resolved"]
    /\ readiness' = Join(readiness, loads', a)
    /\ UNCHANGED <<variant, rejections, rejectedWith, prereqs, setupSceneCalls,
                   preparing, scene, now, frames, invoked, halted>>

\* A load fails.
LoadRejected(a) ==
    /\ loads[a] = "pending"
    /\ loads' = [loads EXCEPT ![a] = "rejected"]
    /\ rejections' = Append(rejections, a)
    /\ readiness' = Join(readiness, loads', a)
    /\ rejectedWith' = IF readiness = "pending" /\ readiness' = "rejected"
                       THEN a ELSE rejectedWith
    /\ UNCHANGED <<variant, prereqs, setupSceneCalls,
                   preparing, scene, now, frames, invoked, halted>>

\* A setupPrereqs whose promise is never resolved: new Promise(resolve => {}).
setupPrereqsNeverResolved == "pending"

\* The promise setupPrereqs returns: new Promise(resolve => resolve()).
setupPrereqs == "resolved"

\* Framework: setup() calls setupPrereqs once the prerequisites are loaded.
CallSetupPrereqs ==
    /\ readiness = "fulfilled"
    /\ prereqs = "none"
    /\ prereqs' = setupPrereqs
    /\ UNCHANGED <<variant, loads, rejections, readiness, rejectedWith,
                   setupSceneCalls, preparing, scene, now, frames, invoked, halted>>

\* A setupScene that adds nothing before it returns.
setupSceneDeferred(v, s) == s

\* setupScene: the objects it adds at once, and the promises it leaves pending.
setupScene(v, s) == [s EXCEPT !.objects = @ \cup SyncObjects(v)]

\* setup() calling setupScene without waiting for the promise of setupPrereqs.
CallSetupSceneAtOnce ==
    /\ readiness = "fulfilled"
    /\ setupSceneCalls = 0
    /\ setupSceneCalls' = setupSceneCalls + 1
    /\ scene' = setupScene(variant, scene)
    /\ preparing' = AsyncObjects(variant)
    /\ UNCHANGED <<variant, loads, rejections, readiness, rejectedWith,
                   prereqs, now, frames, invoked, halted>>

\* Framework: setup() calls setupScene once the promise of setupPrereqs resolved.
CallSetupScene ==
    /\ prereqs = "resolved"
    /\ setupSceneCalls = 0
    /\ setupSceneCalls' = setupSceneCalls + 1
    /\ scene' = setupScene(variant, scene)
    /\ preparing' = AsyncObjects(variant)
    /\ UNCHANGED <<variant, loads, rejections, readiness, rejectedWith,
                   prereqs, now, frames, invoked, halted>>

\* scene.addObject(o).
addObject(s, o) == [s EXCEPT !.objects = @ \cup {o}]

\* A promise of setupScene resolves: $addToScene adds the object.
AddToScene(o) ==
    /\ o \in preparing
    /\ preparing' = preparing \ {o}
    /\ scene' = addObject(scene, o)
    /\ UNCHANGED <<variant, loads, rejections, readiness, rejectedWith,
                   prereqs, setupSceneCalls, now, frames, invoked, halted>>

\* A frame loop that starts with the engine, before the scene is set up.
RunningAtOnce == ~halted

\* The scene is assembled and its frame loop runs.
Running == setupSceneCalls > 0 /\ ~halted

\* scene.teleportUserToCursor() is called.
TeleportUserToCursor ==
    /\ Running
    /\ \E r \in {teleportUserToCursor(variant, scene)} :
           scene' = IF r.thrown THEN scene ELSE r
    /\ UNCHANGED <<variant, loads, rejections, readiness, rejectedWith,
                   prereqs, setupSceneCalls, preparing, now, frames, invoked, halted>>

\* scene.switchLights(state) / scene.showLights(state) is called.
SwitchLights(state) ==
    /\ Running
    /\ variant # "oldest"
    /\ scene' = switchLights(scene, state)
    /\ UNCHANGED <<variant, loads, rejections, readiness, rejectedWith,
                   prereqs, setupSceneCalls, preparing, now, frames, invoked, halted>>

\* The floor collider reports a collision to its callback.
FloorColliderCallback(collision) ==
    /\ Running
    /\ \E r \in {moveCursorToCollisionPoint(variant, scene, collision)} :
           scene' = IF r.thrown THEN scene ELSE r
    /\ UNCHANGED <<variant, loads, rejections, readiness, rejectedWith,
                   prereqs, setupSceneCalls, preparing, now, frames, invoked, halted>>

\* Framework: one frame.  Every registered object has its behaviours invoked
\* with the timestamp of the frame.
FrameTick ==
    /\ Running
    /\ frames < MaxFrames
    /\ \E order \in FrameOrders(variant, scene) :
       \E todo \in {Todo(variant, order)} :
       \E inp \in Inputs(variant) :
       \E r \in {RunFrame(variant, [scene |-> scene, log |-> <<>>],
                           todo, 1, now + FrameInterval, inp)} :
           /\ now' = now + FrameInterval
           /\ scene' = r.scene
           /\ invoked' = [o \in BehaviorObjects(variant, scene) |->
                             Invoked(variant, r, o, now + FrameInterval)]
           /\ halted' = r.scene.thrown
    /\ frames' = frames + 1
    /\ UNCHANGED <<variant, loads, rejections, readiness, rejectedWith,
                   prereqs, setupSceneCalls, preparing>>

Next ==
    \/ LoadPrerequisites
    \/ \E a \in Manifest : LoadResolved(a)
    \/ \E a \in Manifest : LoadRejected(a)
    \/ CallSetupPrereqs
    \/ CallSetupScene
    \/ \E o \in preparing : AddToScene(o)
    \/ TeleportUserToCursor
    \/ \E state \in LightArgs : SwitchLights(state)
    \/ \E collision \in Collisions : FloorColliderCallback(collision)
    \/ FrameTick

Spec == Init /\ [][Next]_vars

\* The framework's own steps are taken whenever they can be: setup() starts the
\* loads, and the then-callbacks of the two promises run once these are
\* resolved.  Nothing obliges a load to finish.
SpecLive ==
    /\ Init /\ [][Next]_vars
    /\ WF_vars(LoadPrerequisites)
    /\ WF_vars(CallSetupPrereqs)
    /\ WF_vars(CallSetupScene)

(* ----------------------- the revolving cursor -------------------------- *)

\* An assembled scene: every load resolved, setupScene done, every object added.
InitRevolve ==
    /\ variant \in Variants
    /\ loads = [a \in Manifest |-> "resolved"]
    /\ rejections = <<>>
    /\ readiness = "fulfilled"
    /\ rejectedWith = 0
    /\ prereqs = "resolved"
    /\ setupSceneCalls = 1
    /\ preparing = {}
    /\ scene = [NewScene(variant, SceneLights(variant)) EXCEPT
                    !.objects = SyncObjects(variant) \cup AsyncObjects(variant)]
    /\ now = 0
    /\ frames = 0
    /\ invoked = <<>>
    /\ halted = FALSE

\* Framework: a frame, dt milliseconds after the last, invokes the cursor's
\* revolve behaviour with its timestamp.  The frames are not counted here.
RevolveTick(dt) ==
    /\ now + dt <= MaxTimePoint
    /\ now' = now + dt
    /\ scene' = revolve(scene, now + dt)
    /\ UNCHANGED <<variant, loads, rejections, readiness, rejectedWith, prereqs,
                   setupSceneCalls, preparing, frames, invoked, halted>>

NextRevolve == \E dt \in 1..MaxDelta : RevolveTick(dt)

SpecRevolve == InitRevolve /\ [][NextRevolve]_vars

(* ------------------------- the gamepad buttons -------------------------- *)

\* Which buttons of a gamepad are down.
PadsDown == [grip : BOOLEAN, menu : BOOLEAN]

\* What the devices are read as in one frame: the ray's collision and the
\* buttons that are down on gamepad 0 and gamepad 1.
Readings(v) ==
    {i \in [collision : Collisions \cup {NoCollision}, pad0 : PadsDown, pad1 : PadsDown] :
        /\ v = "component" => i.pad1 = NoPress
        /\ v # "component" => i.collision.POI <= 0 /\ (i.collision.POI = 0 => i.collision = NoCollision)}

\* Framework: the status of a button that was down or up in the last frame and
\* is down or up in this one.
ButtonStatus(wasDown, isDown) ==
    CASE ~wasDown /\ ~isDown -> "up"
      [] ~wasDown /\ isDown  -> "pressed"
      [] wasDown /\ isDown   -> "held"
      [] OTHER               -> "released"

\* A test that lets through every status but 'up'.
TriggerNotUp(btnStatus) == btnStatus # "up"

\* The test the handlers put before teleportUserToCursor and the light toggle:
\* c.buttons.grip.pressed, btnStatus == 'pressed'.
Trigger(btnStatus) == btnStatus = "pressed"

\* The buttons of a gamepad that pass the test in this frame.
PadReport(was, is) ==
    [grip |-> Trigger(ButtonStatus(was.grip, is.grip)),
     menu |-> Trigger(ButtonStatus(was.menu, is.menu))]

\* An assembled scene with every object added but, in the component scene,
\* perhaps the cursor, whose prepare() promise may still be pending.
InitFrames ==
    /\ variant \in Variants
    /\ loads = [a \in Manifest |-> "resolved"]
    /\ rejections = <<>>
    /\ readiness = "fulfilled"
    /\ rejectedWith = 0
    /\ prereqs = "resolved"
    /\ setupSceneCalls = 1
    /\ preparing \in {{}} \cup {{<<"cursor">>} \cap AsyncObjects(variant)}
    /\ scene = [NewScene(variant, SceneLights(variant)) EXCEPT
                    !.objects = (SyncObjects(variant) \cup AsyncObjects(variant))
                                    \ preparing]
    /\ now = 0
    /\ frames = 0
    /\ invoked = <<>>
    /\ halted = FALSE

\* Framework: one frame, with the buttons read from the gamepads.  The status of
\* a button comes from what it was in the frame before.
FramePoll ==
    /\ Running
    /\ frames < MaxPolls
    /\ \E order \in FrameOrders(variant, scene) :
       \E todo \in {Todo(variant, order)} :
       \E raw \in Readings(variant) :
       \E inp \in {[collision |-> raw.collision,
                    pad0 |-> PadReport(scene.gamepads[1], raw.pad0),
                    pad1 |-> PadReport(scene.gamepads[2], raw.pad1)]} :
       \E r \in {RunFrame(variant, [scene |-> scene, log |-> <<>>],
                           todo, 1, now + FrameInterval, inp)} :
           /\ now' = now + FrameInterval
           /\ scene' = [r.scene EXCEPT !.gamepads = <<raw.pad0, raw.pad1>>]
           /\ invoked' = [o \in BehaviorObjects(variant, scene) |->
                             Invoked(variant, r, o, now + FrameInterval)]
           /\ halted' = r.scene.thrown
    /\ frames' = frames + 1
    /\ UNCHANGED <<variant, loads, rejections, readiness, rejectedWith,
                   prereqs, setupSceneCalls, preparing>>

NextFrames ==
    \/ \E o \in preparing : AddToScene(o)
    \/ FramePoll

SpecFrames == InitFrames /\ [][NextFrames]_vars

(* ---------------------------- lifecycle -------------------------------- *)

\* The lifecycle of the specification: Unloaded, Loading, Ready, Assembled,
\* Rendering.
Lifecycle == <<"Unloaded", "Loading", "Ready", "Assembled", "Rendering">>

\* The place in Lifecycle the scene is at, 0 when it is at none of them.
\* Unloaded: setup() has not begun.  Loading: the prerequisites are being
\* loaded, or a load has failed.  Ready: the promise of setupPrereqs resolved.
\* Assembled: setupScene was called.  Rendering: a frame was drawn.
LifecycleState ==
    CASE readiness = "none" /\ prereqs = "none" /\ setupSceneCalls = 0 /\ frames = 0 -> 1
      [] readiness # "none" /\ prereqs = "none" /\ setupSceneCalls = 0 /\ frames = 0 -> 2
      [] readiness = "fulfilled" /\ prereqs = "resolved" /\ setupSceneCalls = 0
             /\ frames = 0 -> 3
      [] readiness = "fulfilled" /\ prereqs = "resolved" /\ setupSceneCalls = 1
             /\ frames = 0 -> 4
      [] readiness = "fulfilled" /\ prereqs = "resolved" /\ setupSceneCalls = 1
             /\ frames > 0 -> 5
      [] OTHER -> 0

(* --------------------------- prerequisites ----------------------------- *)

\* The solid colours the two older scenes declare.
Colors ==
    <<"navy", "blue", "green", "teal", "lime", "springgreen", "cyan", "aqua",
      "dodgerblue", "lightseagreen", "forestgreen", "seagreen", "royalblue",
      "red", "magenta", "orange", "yellow", "black", "gray", "white",
      "controllerGreen", "controllerBlue">>

\* The labelled kinds of scene.prerequisites.
Kinds == {"shaders", "meshes", "colors", "textures", "materials"}

\* Prerequisites in which a colour takes the label of the concrete texture.
PrerequisitesClash(v) ==
    [shaders   |-> <<"basic", "diffuse", "ads">>,
     meshes    |-> <<>>,
     colors    |-> <<"white", "concrete01">>,
     textures  |-> <<"concrete01">>,
     materials |-> <<"concrete", "matteplastic">>]

\* The manifest of the component scene, with no meshes and no colours, in every
\* scene.
PrerequisitesBare(v) ==
    [shaders   |-> <<"basic", "diffuse", "ads">>,
     meshes    |-> <<>>,
     colors    |-> <<>>,
     textures  |-> <<"concrete01">>,
     materials |-> <<"concrete", "matteplastic">>]

\* scene.prerequisites: the labels declared under each kind, in order.
Prerequisites(v) ==
    [shaders   |-> <<"basic", "diffuse", "ads">>,
     meshes    |-> CASE v = "component" -> <<>>
                     [] v = "older" ->
                            <<"controller_body", "controller_button_menu",
                              "controller_button_sys", "controller_trigger",
                              "controller_trackpad", "controller_grip_l",
                              "controller_grip_r">>
                     [] OTHER -> <<"controller">>,
     colors    |-> IF v = "component" THEN <<>> ELSE Colors,
     textures  |-> <<"concrete01">>,
     materials |-> <<"concrete", "matteplastic">>]

\* Framework: the collection of the scene an item of a kind is stored in.
TargetKind(kind) == IF kind = "colors" THEN "textures" ELSE kind

\* Framework: the handles stored under scene.<k>.<L> while the prerequisites
\* are built; item i of a kind is written as <<kind, i>>.  The loads finish in
\* any order, so with two items stored under one key either may be the one
\* that stays.
Stored(v, k, L) ==
    {h \in UNION {{<<kind, i>> : i \in DOMAIN Prerequisites(v)[kind]} : kind \in Kinds} :
        TargetKind(h[1]) = k /\ Prerequisites(v)[h[1]][h[2]] = L}

\* scene.prerequisites.components: the local names of the components the
\* component scene pre-loads.
Components(v) ==
    IF v = "component"
    THEN <<"vivecontroller", "glyphtext", "urlmesh", "picboard", "shape">>
    ELSE <<>>

\* scene.meshes['controller_' + L[i]] for the chrome parts.
ChromeMeshLabels ==
    <<"controller_body", "controller_button_menu", "controller_button_sys",
      "controller_trigger", "controller_trackpad", "controller_grip_l",
      "controller_grip_r">>

\* The assets the construction of object o names, as <<kind, label>>.
Refs(v, o) ==
    CASE v = "component" /\ o \in {<<"floor">>, <<"raft">>} ->
             {<<"components", "shape">>, <<"materials", "concrete">>}
      [] v = "component" /\ o = <<"cursor">> -> {<<"components", "shape">>}
      [] v = "component" /\ o \in {<<"c0">>, <<"c1">>} ->
             {<<"components", "vivecontroller">>}
      [] v = "component" /\ o = <<"text1">> -> {<<"components", "glyphtext">>}
      [] v = "component" /\ o = <<"text2">> ->
             {<<"components", "glyphtext">>, <<"materials", "matteplastic">>}
      [] v # "component" /\ o = <<"cursor">> ->
             {<<"materials", "matteplastic">>, <<"textures", "red">>}
      [] v # "component" /\ o = <<"floor">> -> {<<"materials", "concrete">>}
      [] v # "component" /\ o = <<"raft">> ->
             {<<"materials", "concrete">>, <<"textures", "royalblue">>}
      [] v = "older" /\ Len(o) = 2 /\ o[1] \in {"c0", "c1"} ->
             {<<"meshes", ChromeMeshLabels[CHOOSE i \in DOMAIN ChromeParts :
                                               ChromeParts[i] = o[2]]>>,
              <<"textures", IF o[1] = "c0" THEN "seagreen" ELSE "royalblue">>,
              <<"materials", "matteplastic">>}
      [] v = "older" /\ o[1] \in {"letters", "fbIcon"} ->
             {<<"materials", "matteplastic">>}
      [] v = "oldest" /\ o \in {<<"ctrl0">>, <<"ctrl1">>} ->
             {<<"meshes", "controller">>, <<"materials", "matteplastic">>,
              <<"textures", IF o = <<"ctrl0">> THEN "controllerGreen"
                            ELSE "controllerBlue">>}
      [] OTHER -> {}

\* The assets a cuboid of group 'lamps' names.
LampRefs == {<<"shaders", "basic">>}

\* The assets a declared material names.
MaterialRefs(v, label) ==
    CASE label = "concrete" -> {<<"textures", "concrete01">>, <<"shaders", "ads">>}
      [] label = "matteplastic" /\ v = "component" -> {<<"shaders", "ads">>}
      [] label = "matteplastic" -> {<<"textures", "white">>, <<"shaders", "ads">>}
      [] OTHER -> {}

\* Framework: an asset of a kind is found under its label once built.
Declared(v, ref) ==
    IF ref[1] = "components"
    THEN \E i \in DOMAIN Components(v) : Components(v)[i] = ref[2]
    ELSE Stored(v, ref[1], ref[2]) # {}

(* ------------------------------ claims --------------------------------- *)

\* The first three coordinates of a point.
Xyz(p) == <<p[1], p[2], p[3]>>

\* The lights switchLights makes a lamp for: those with diffuse and position.
LitLights(s) ==
    {i \in 1..Len(s.lights) : Truthy(s.lights[i].diffuse) /\ Truthy(s.lights[i].position)}

\* C1: whatever the order in which the loads finish, setupScene has not been
\* called unless every asset of the manifest has resolved.
C1_AssemblyAfterEveryAsset ==
    setupSceneCalls > 0 => \A a \in Manifest : loads[a] = "resolved"

C1_Witness ==
    /\ setupSceneCalls = 1
    /\ \A a \in Manifest : loads[a] = "resolved"
    /\ Cardinality(Manifest) > 1

\* C2: once a load has failed, the promise of loadPrerequisites is rejected with
\* the first load that failed, setupPrereqs and setupScene are never called, and
\* the scene has no object, whatever the other loads do.
C2_FailedLoadBlocksAssembly ==
    rejections # <<>> =>
        /\ readiness = "rejected"
        /\ rejectedWith = Head(rejections)
        /\ prereqs = "none"
        /\ setupSceneCalls = 0
        /\ scene.objects = {}
        /\ scene.lamps = <<>>
        /\ preparing = {}
        /\ frames = 0

C2_Witness ==
    /\ rejections # <<>>
    /\ \E a \in Manifest : loads[a] = "resolved"
    /\ \A a \in Manifest : loads[a] \in {"resolved", "rejected"}

\* C3: setupPrereqs is called only when the automatic loads have all finished,
\* and setupScene only when the promise setupPrereqs returned has resolved.
C3_PhasesInOrder ==
    /\ prereqs # "none" =>
           readiness = "fulfilled" /\ \A a \in Manifest : loads[a] = "resolved"
    /\ setupSceneCalls > 0 => prereqs = "resolved"
    /\ setupSceneCalls <= 1

C3_Witness ==
    /\ setupSceneCalls = 1
    /\ prereqs = "resolved"
    /\ readiness = "fulfilled"
    /\ scene.objects = SyncObjects(variant)

C5_TeleportToLastRecorded ==
    [][/\ TeleportUserToCursor /\ scene.recorded # Undefined =>
              scene'.playerLocation = Xyz(scene.recorded)
       /\ (/\ frames' = frames + 1
           /\ scene.recorded # Undefined
           /\ scene'.playerLocation # scene.playerLocation) =>
              scene'.playerLocation \in {Xyz(scene.recorded), Xyz(scene'.recorded)}]_vars

C5_Witness ==
    /\ scene.recorded # Undefined
    /\ scene.playerLocation = Xyz(scene.recorded)
    /\ scene.cursor.pos = scene.playerLocation

\* C6 as stated: two calls of switchLights() in a row leave group 'lamps' empty.
C6_TwoTogglesEmpty ==
    [][SwitchLights("undefined") => switchLights(scene', "undefined").lamps = <<>>]_vars

\* C6: two calls of switchLights() in a row leave group 'lamps' and lightsShown
\* as they were before the first; the group is empty after them when the
\* lights were hidden before.
C6_TwoTogglesRestore ==
    [][SwitchLights("undefined") =>
           LET s2 == switchLights(scene', "undefined") IN
           /\ s2.lamps = scene.lamps
           /\ s2.lightsShown = scene.lightsShown
           /\ (~scene.lightsShown => s2.lamps = <<>>)]_vars

C6_Witness ==
    /\ scene.lightsShown
    /\ scene.lights = SceneLights(variant)
    /\ Len(scene.lamps) = Len(SceneLights(variant))

\* C7: a second switchLights(true) changes nothing of what the first left, which
\* is one lamp for each light that has diffuse and position; a second
\* switchLights(false) changes nothing of what the first left, which is an empty
\* group and lightsShown false.
C7_ShowHideIdempotent ==
    [][/\ SwitchLights("true") =>
              /\ switchLights(scene', "true") = scene'
              /\ Len(scene'.lamps) = Cardinality(LitLights(scene))
              /\ \A i \in LitLights(scene) :
                     Cardinality({k \in 1..Len(scene'.lamps) :
                         scene'.lamps[k].pos = Xyz(scene.lights[i].position)}) = 1
       /\ SwitchLights("false") =>
              /\ switchLights(scene', "false") = scene'
              /\ scene'.lamps = <<>>
              /\ ~scene'.lightsShown]_vars

C7_Witness ==
    /\ scene.lightsShown
    /\ scene.lights = EditedLights(variant)
    /\ Len(scene.lamps) = 1

\* C8: after switchLights(state), lightsShown is TRUE for true, FALSE for false,
\* and the negation of what it was for undefined.
C8_LightsShownFollowsState ==
    [][\A state \in LightArgs :
           SwitchLights(state) =>
               scene'.lightsShown = CASE state = "true"  -> TRUE
                                      [] state = "false" -> FALSE
                                      [] OTHER           -> ~scene.lightsShown]_vars

C8_Witness ==
    /\ scene.lightsShown
    /\ scene.lamps # <<>>
    /\ variant = "older"

\* C9 as stated: the y orientation the revolve behaviour sets wraps at 2 pi, so
\* it stays below 2 pi; x and z are 0.
C9_WrapsAtTwoPi ==
    /\ scene.cursor.orientation[1] = 0
    /\ scene.cursor.orientation[3] = 0
    /\ scene.cursor.orientation[2] < TwoPi

\* C9: the y orientation the revolve behaviour sets grows strictly with
\* timePoint and is not wrapped: it is 2 pi larger than it was 7000 ms before;
\* x and z are 0.
C9_RevolveIncreases ==
    [][now' > now =>
           /\ scene'.cursor.orientation[2] > scene.cursor.orientation[2]
           /\ scene'.cursor.orientation[1] = 0
           /\ scene'.cursor.orientation[3] = 0
           /\ now' >= RevolvePeriod =>
                  scene'.cursor.orientation[2]
                      = ((TwoPi * (now' - RevolvePeriod)) \div RevolvePeriod) + TwoPi]_vars

C9_Witness ==
    /\ now > RevolvePeriod
    /\ scene.cursor.orientation[2] > TwoPi

CoreObjects(v) ==
    CASE v = "component" -> {<<"floor">>, <<"raft">>, <<"cursor">>, <<"c0">>, <<"c1">>}
      [] v = "older"     -> {<<"cursor">>, <<"floor">>, <<"raft">>}
                                \cup Chrome("c0") \cup Chrome("c1")
      [] OTHER           -> {<<"cursor">>, <<"floor">>, <<"raft">>, <<"ctrl0">>, <<"ctrl1">>}

\* C11 as stated: once setupScene has returned, the floor, the raft, the cursor
\* and both controllers are registered in the scene.
C11_RegisteredAtReturn ==
    setupSceneCalls > 0 => CoreObjects(variant) \subseteq scene.objects

\* C11: once setupScene has returned, the floor, the raft, the cursor and both
\* controllers are registered in the older scenes; in the component scene each
\* of them is built and is either registered or waits for its prepare() promise,
\* and none is registered before setupScene is called.
C11_BuiltAtReturn ==
    /\ setupSceneCalls = 0 => scene.objects = {} /\ preparing = {}
    /\ setupSceneCalls > 0 =>
           /\ variant # "component" => CoreObjects(variant) \subseteq scene.objects
           /\ \A o \in CoreObjects(variant) : (o \in scene.objects) # (o \in preparing)

C11_Witness ==
    /\ variant = "component"
    /\ setupSceneCalls = 1
    /\ scene.objects = {}
    /\ CoreObjects(variant) \subseteq preparing

\* C12: once every declared load has resolved, setupScene is eventually invoked,
\* and it is never invoked a second time; as long as some load has not resolved
\* (pending for ever, or failed) setupScene has not been invoked.
C12_SetupSceneOnceLoaded ==
    /\ (\A a \in Manifest : loads[a] = "resolved") ~> (setupSceneCalls = 1)
    /\ [](setupSceneCalls <= 1)
    /\ []((\E a \in Manifest : loads[a] # "resolved") => setupSceneCalls = 0)

C12_Witness ==
    /\ setupSceneCalls = 1
    /\ prereqs = setupPrereqs
    /\ rejections = <<>>
    /\ \A a \in Manifest : loads[a] = "resolved"

\* C13: once the prerequisites are built, every item declared with label L
\* under a kind is the one handle stored under scene.<kind>.<L>, a colour under
\* scene.textures.<L>: no other declared item is stored under the same key.
C13_LabelResolvesToOneHandle ==
    readiness = "fulfilled" =>
        \A kind \in Kinds : \A i \in DOMAIN Prerequisites(variant)[kind] :
            Stored(variant, IF kind = "colors" THEN "textures" ELSE kind,
                   Prerequisites(variant)[kind][i]) = {<<kind, i>>}

C13_Witness ==
    /\ readiness = "fulfilled"
    /\ variant = "older"
    /\ Stored(variant, "textures", "white") = {<<"colors", 20>>}
    /\ Stored(variant, "textures", "concrete01") = {<<"textures", 1>>}
    /\ Stored(variant, "colors", "white") = {}

\* The labels the scenes give to objects.
ObjectLabels == {"floor", "raft", "cursor", "c0", "c1", "text1", "text2"}

\* C14: in every reachable state each of the labels floor, raft, cursor, c0, c1,
\* text1 and text2 is carried by at most one object of the scene; the lamps, the
\* controller parts, the letters and the icon carry no label at all.
C14_LabelsUnique ==
    /\ \A L \in ObjectLabels :
           Cardinality({o \in scene.objects : Label(variant, o) = L}) <= 1
    /\ \A o \in scene.objects : Label(variant, o) \in ObjectLabels \cup {""}
    /\ \A i \in DOMAIN scene.lamps : "label" \notin DOMAIN scene.lamps[i]

C14_Witness ==
    /\ variant = "component"
    /\ {Label(variant, o) : o \in scene.objects} = ObjectLabels
    /\ scene.lightsShown
    /\ scene.lamps # <<>>

\* The transforms of the scene objects other than o: the cursor's position and
\* orientation and the raft's position.
OtherTransforms(s, o) ==
    [cursor |-> IF o = <<"cursor">> THEN <<>> ELSE <<s.cursor.pos, s.cursor.orientation>>,
     raft   |-> IF o = <<"raft">> THEN <<>> ELSE s.raftPos]

\* C15 as stated: whatever the devices report, a behaviour invoked on the
\* object it is attached to leaves the transform of every other object as it
\* was.
C15_OthersUntouched ==
    \A o \in scene.objects : \A k \in DOMAIN Behaviors(variant, o) :
        \A inp \in Inputs(variant) :
            OtherTransforms(Behave(variant, scene, o, Behaviors(variant, o)[k], now, inp), o)
                = OtherTransforms(scene, o)

\* C15: the raft's followPlayer, the cursor's revolve and the trackers leave the
\* transform of every other object as it was; the ray projector of controller 0
\* changes no transform but the position of the cursor, which it moves to the
\* collision point; a button handler leaves the cursor alone and, in the older
\* scenes only, moves the raft to the cursor when it teleports.
C15_OthersUntouchedButCursorAndRaft ==
    \A o \in scene.objects : \A k \in DOMAIN Behaviors(variant, o) :
        \A inp \in Inputs(variant) :
            \E b \in {Behaviors(variant, o)[k]} :
            \E s2 \in {Behave(variant, scene, o, b, now, inp)} :
                /\ b \in {"followPlayer", "revolve", "tracker"} =>
                       OtherTransforms(s2, o) = OtherTransforms(scene, o)
                /\ b = "rayProjector" =>
                       /\ s2.raftPos = scene.raftPos
                       /\ s2.cursor.orientation = scene.cursor.orientation
                       /\ \/ s2.cursor.pos = scene.cursor.pos
                          \/ /\ inp.collision # NoCollision
                             /\ s2.cursor.pos = Xyz(inp.collision.collisionPoint)
                /\ b \in {"buttonHandler", "buttonHandlingTracker"} =>
                       /\ s2.cursor.pos = scene.cursor.pos
                       /\ s2.cursor.orientation = scene.cursor.orientation
                       /\ variant = "component" => s2.raftPos = scene.raftPos
                       /\ s2.raftPos \in {scene.raftPos, scene.cursor.pos}

\* Controller 0 and the cursor are in the scene and the ray projector, given a
\* hit, moves the cursor from where a former hit put it.
C15_Witness ==
    /\ frames > 0
    /\ scene.recorded # Undefined
    /\ \E o \in scene.objects : \E k \in DOMAIN Behaviors(variant, o) :
       \E inp \in Inputs(variant) :
           /\ Behaviors(variant, o)[k] = "rayProjector"
           /\ Behave(variant, scene, o, "rayProjector", now, inp).cursor.pos
                  # scene.cursor.pos

\* C16: while no object labelled 'cursor' is registered, teleportUserToCursor
\* and the floor-collider callback throw and change nothing, and so does a
\* behaviour that calls one of them; a frame in which that happens ends with
\* the error, with the player location and the cursor position as they were,
\* and no frame follows it.
C16_LookupUnguarded ==
    /\ [](~HasObjectByLabel(variant, scene, "cursor") =>
            /\ teleportUserToCursor(variant, scene) = Throw(scene)
            /\ \A c \in Collisions :
                   moveCursorToCollisionPoint(variant, scene, c) = Throw(scene)
            /\ \A o \in scene.objects : \A k \in DOMAIN Behaviors(variant, o) :
               \A inp \in Inputs(variant) :
                   \/ /\ Behaviors(variant, o)[k] = "rayProjector"
                      /\ inp.collision # NoCollision
                   \/ /\ Behaviors(variant, o)[k] \in {"buttonHandler", "buttonHandlingTracker"}
                      /\ (IF GamepadIndex(o) = 0 THEN inp.pad0 ELSE inp.pad1).grip
                   => Behave(variant, scene, o, Behaviors(variant, o)[k], now, inp)
                          = Throw(scene))
    /\ [][/\ (frames' = frames + 1
                /\ ~HasObjectByLabel(variant, scene, "cursor")
                /\ <<"c0">> \in scene.objects
                /\ ~scene.gamepads[1].grip /\ scene'.gamepads[1].grip)
             => halted'
          /\ (halted' /\ ~halted)
             => /\ frames' = frames + 1
                /\ ~HasObjectByLabel(variant, scene, "cursor")
                /\ scene'.thrown
                /\ scene'.playerLocation = scene.playerLocation
                /\ scene'.cursor.pos = scene.cursor.pos
          /\ halted => frames' = frames /\ halted']_vars

\* The loop has halted on the missing cursor with frames still to come.
C16_Witness ==
    /\ halted
    /\ frames < MaxPolls
    /\ preparing = {<<"cursor">>}
    /\ ~HasObjectByLabel(variant, scene, "cursor")

\* The gamepads whose buttons a handler of the scene listens to.
Handled(v) == IF v = "component" THEN {1} ELSE {1, 2}

\* The handled gamepads on which button btn goes from up to down in this frame.
PressedOn(btn) ==
    {p \in Handled(variant) : ~scene.gamepads[p][btn] /\ scene'.gamepads[p][btn]}

\* C17 as stated: in a frame that ends without an error the player is moved to
\* the cursor if a grip button goes from up to down and stays where it is if
\* none does, and the lights are toggled once for every menu button that goes
\* from up to down and stay as they are if none does.
C17_PressedFiresTeleportAndToggle ==
    [][(frames' = frames + 1 /\ ~halted') =>
          /\ PressedOn("grip") # {} =>
                 scene'.playerLocation \in {scene.cursor.pos, scene'.cursor.pos}
          /\ PressedOn("grip") = {} =>
                 scene'.playerLocation = scene.playerLocation
          /\ (scene'.lightsShown # scene.lightsShown)
                 <=> Cardinality(PressedOn("menu")) = 1]_vars

\* C17: in a frame that ends without an error the player is moved to the
\* cursor if a grip button goes from up to down and stays where it is if none
\* does (up, held, released); in the component scene and the older scene the
\* lights are toggled once for every menu button that goes from up to down and
\* stay as they are if none does; in the oldest scene no button changes them.
C17_PressedFiresOnce ==
    [][(frames' = frames + 1 /\ ~halted') =>
          /\ PressedOn("grip") # {} =>
                 scene'.playerLocation \in {scene.cursor.pos, scene'.cursor.pos}
          /\ PressedOn("grip") = {} =>
                 scene'.playerLocation = scene.playerLocation
          /\ variant # "oldest" =>
                 ((scene'.lightsShown # scene.lightsShown)
                     <=> Cardinality(PressedOn("menu")) = 1)
          /\ variant = "oldest" =>
                 /\ scene'.lightsShown = scene.lightsShown
                 /\ scene'.lamps = scene.lamps]_vars

\* A grip is down after a teleport and the cursor is away from the player: a
\* frame in which the grip is held is about to run.
C17_Witness ==
    /\ ~halted
    /\ frames > 0 /\ frames < MaxPolls
    /\ HasObjectByLabel(variant, scene, "cursor")
    /\ scene.gamepads[1].grip
    /\ scene.playerLocation # Origin
    /\ scene.playerLocation # scene.cursor.pos

\* C18 as stated: after every frame in which the raft's followPlayer has run
\* the raft is at the player location.
C18_RaftAtPlayerAfterFrame ==
    [][(frames' = frames + 1 /\ ~halted' /\ variant = "component"
            /\ <<"raft">> \in scene.objects)
          => scene'.raftPos = scene'.playerLocation]_vars

\* C18: after a frame in which the raft's followPlayer has run the raft is at
\* the player location of the start or of the end of that frame; it is at the
\* player location of the end when no grip was pressed in the frame, and a raft
\* that a teleport left behind is at the player location after the next frame.
C18_RaftFollowsWithinTwoFrames ==
    [][(frames' = frames + 1 /\ ~halted' /\ variant = "component"
            /\ <<"raft">> \in scene.objects)
          => /\ scene'.raftPos \in {scene.playerLocation, scene'.playerLocation}
             /\ PressedOn("grip") = {} => scene'.raftPos = scene'.playerLocation
             /\ scene.raftPos # scene.playerLocation =>
                    scene'.raftPos = scene'.playerLocation]_vars

\* The raft ran before controller 0 in a frame with a teleport: it is not at
\* the player location, and a frame is still to come.
C18_Witness ==
    /\ variant = "component"
    /\ ~halted
    /\ frames > 0 /\ frames < MaxPolls
    /\ <<"raft">> \in scene.objects
    /\ scene.raftPos # scene.playerLocation

\* The objects that make up controller 1.
Controller1(s) == {o \in s.objects : o[1] \in {"c1", "ctrl1"}}

\* C19: every object that carries a ray projector belongs to controller 0, and
\* no behaviour of an object of controller 1, whatever the devices report,
\* changes the position of the cursor.
C19_OnlyController0MovesCursor ==
    /\ \A o \in scene.objects : \A k \in DOMAIN Behaviors(variant, o) :
           Behaviors(variant, o)[k] = "rayProjector" => o[1] \in {"c0", "ctrl0"}
    /\ \A o \in Controller1(scene) : \A k \in DOMAIN Behaviors(variant, o) :
       \A inp \in Inputs(variant) :
           Behave(variant, scene, o, Behaviors(variant, o)[k], now, inp).cursor.pos
               = scene.cursor.pos

\* Controller 0 has put the cursor somewhere, and a grip press on controller 1
\* acts on the player and not on the cursor.
C19_Witness ==
    /\ frames > 0
    /\ scene.recorded # Undefined
    /\ scene.cursor.pos # scene.playerLocation
    /\ \E o \in Controller1(scene) : \E k \in DOMAIN Behaviors(variant, o) :
       \E inp \in Inputs(variant) :
           /\ inp.pad1.grip
           /\ Behave(variant, scene, o, Behaviors(variant, o)[k], now, inp).playerLocation
                  = scene.cursor.pos

\* The k-th entry of scene.lights that has both a diffuse and a position.
NthLit(s, k) ==
    CHOOSE i \in LitLights(s) : Cardinality({j \in LitLights(s) : j < i}) = k - 1

\* C20: in every reachable state group 'lamps' is empty while lightsShown is
\* false, and while lightsShown is true it holds one cuboid for every entry of
\* scene.lights with a diffuse and a position, and no other, each at the x, y, z
\* of its light.
C20_LampsWhileShown ==
    /\ ~scene.lightsShown => scene.lamps = <<>>
    /\ scene.lightsShown =>
           /\ Len(scene.lamps) = Cardinality(LitLights(scene))
           /\ \A k \in 1..Len(scene.lamps) :
                  /\ scene.lamps[k].pos = Xyz(scene.lights[NthLit(scene, k)].position)
                  /\ scene.lamps[k].groupLabel = "lamps"

C20_Witness ==
    /\ scene.lightsShown
    /\ scene.lamps # <<>>
    /\ Len(scene.lamps) < Len(scene.lights)
    /\ frames > 0

\* The invocations of the button handling tracker the last frame made on the
\* chrome objects of controller c.
HandlerRuns(c) ==
    {e \in UNION {{<<o, i>> : i \in DOMAIN invoked[o]} : o \in Chrome(c) \cap DOMAIN invoked} :
        invoked[e[1]][e[2]][1] = "buttonHandlingTracker"}

\* C21: in the older scene each controller is seven chrome objects; the first
\* carries the primary behaviours, with the button handling tracker among them,
\* and each of the other six carries the basic tracker alone, so a frame runs
\* the button handler of a controller once.
C21_PrimaryOnFirstChrome ==
    (variant = "older" /\ setupSceneCalls > 0) =>
        \A c \in {"c0", "c1"} :
            /\ Chrome(c) \subseteq scene.objects
            /\ Cardinality(Chrome(c)) = 7
            /\ {o \in Chrome(c) :
                   \E k \in DOMAIN Behaviors(variant, o) :
                       Behaviors(variant, o)[k] \in {"buttonHandlingTracker", "rayProjector"}}
                   = {<<c, ChromeParts[1]>>}
            /\ \A i \in 2..Len(ChromeParts) :
                   Behaviors(variant, <<c, ChromeParts[i]>>) = <<"tracker">>
            /\ frames > 0 => Cardinality(HandlerRuns(c)) = 1

\* A frame of the older scene in which the grip of controller 1 went down and
\* the player was taken to the cursor.
C21_Witness ==
    /\ variant = "older"
    /\ frames > 0
    /\ scene.gamepads[2].grip /\ ~scene.gamepads[1].grip
    /\ scene.playerLocation = scene.cursor.pos
    /\ scene.playerLocation # Origin
    /\ Cardinality(HandlerRuns("c1")) = 1

\* C22: every object setupScene has constructed, added or still preparing, and
\* every lamp, was constructed after the prerequisites were built and names
\* only materials, textures, shaders, meshes and components its scene declares;
\* so do the declared materials.
C22_ReferencesDeclared ==
    /\ \A o \in scene.objects \cup preparing :
           /\ readiness = "fulfilled"
           /\ \A ref \in Refs(variant, o) :
                  /\ Declared(variant, ref)
                  /\ ref[1] = "materials" =>
                         \A r2 \in MaterialRefs(variant, ref[2]) : Declared(variant, r2)
    /\ scene.lamps # <<>> =>
           /\ readiness = "fulfilled"
           /\ \A ref \in LampRefs : Declared(variant, ref)

C22_Witness ==
    /\ variant = "older"
    /\ preparing = {}
    /\ scene.lamps # <<>>
    /\ <<"meshes", "controller_grip_r">> \in Refs(variant, <<"c1", "grip_r">>)
    /\ <<"c1", "grip_r">> \in scene.objects

\* C23: in the component scene, whatever the order in which the prepare()
\* promises resolve, a frame in which the behaviours of controller c0 run finds
\* the cursor whenever the collider callback or teleportUserToCursor looks it
\* up: no such frame ends on a failed lookup.
C23_CursorRegisteredWhenUsed ==
    [][(frames' = frames + 1 /\ variant = "component" /\ <<"c0">> \in scene.objects)
          => (~scene'.thrown /\ ~halted')]_vars

\* Controller c0 was added while the cursor's promise was pending, and the
\* frame ended in c0's ray projector, the second of its behaviours.
C23_Witness ==
    /\ variant = "component"
    /\ halted
    /\ <<"cursor">> \in preparing
    /\ <<"c0">> \in DOMAIN invoked
    /\ Len(invoked[<<"c0">>]) = 2
    /\ invoked[<<"c0">>][2][1] = "rayProjector"

\* C24: with the cursor in the component scene, a callback with POI < 0 leaves
\* cursor.drawable visible and at the collision point, and a callback with
\* POI >= 0 leaves cursor.drawable hidden and where it was.
C24_DrawableHiddenIffNoHit ==
    (variant = "component" /\ HasObjectByLabel(variant, scene, "cursor")) =>
        \A c \in Collisions :
            \E s2 \in {moveCursorToCollisionPoint(variant, scene, c)} :
                /\ c.POI < 0 =>
                       /\ ~s2.cursor.drawableHidden
                       /\ s2.cursor.pos = Xyz(c.collisionPoint)
                /\ c.POI >= 0 =>
                       /\ s2.cursor.drawableHidden
                       /\ s2.cursor.pos = scene.cursor.pos

\* The last callback reported no valid hit after an earlier one had placed the
\* cursor: cursor.hidden is set and cursor.drawable is still shown.
C24_Witness ==
    /\ variant = "component"
    /\ HasObjectByLabel(variant, scene, "cursor")
    /\ scene.recorded # Undefined
    /\ scene.cursor.pos = Xyz(scene.recorded)
    /\ scene.cursor.hidden
    /\ ~scene.cursor.drawableHidden

\* The points the floor collider reports.
ReportedPoints == {Xyz(c.collisionPoint) : c \in Collisions}

\* C25 as stated: the player location is its initial value or a point the floor
\* collider reported.
C25_PlayerAtOriginOrReported ==
    scene.playerLocation \in {Origin} \cup ReportedPoints

\* C25: the player location is its initial value, a point the floor collider
\* reported, or the hidden position under the floor the cursor is built at; the
\* player is taken to the hidden position only by a teleport, in a step that
\* starts before any collision was recorded.
C25_PlayerAtOriginReportedOrHidden ==
    [][/\ scene'.playerLocation \in {Origin, Hidden(variant)} \cup ReportedPoints
       /\ (scene'.playerLocation = Hidden(variant)
              /\ scene.playerLocation # Hidden(variant))
          => /\ scene.recorded = Undefined
             /\ scene.cursor.pos = Hidden(variant)
             /\ TeleportUserToCursor \/ frames' = frames + 1
       /\ scene'.playerLocation \in ReportedPoints => scene'.recorded # Undefined]_vars

\* A teleport before any collision has put the player under the floor.
C25_Witness ==
    /\ scene.playerLocation = Hidden(variant)
    /\ scene.recorded = Undefined
    /\ scene.cursor.pos = Hidden(variant)

\* C26: for every argument, switchLights / showLights leaves the objects outside
\* group 'lamps', the cursor, the raft, the player location and scene.lights
\* as they were; what it adds carries the group label 'lamps'.
C26_OnlyLampsChange ==
    variant # "oldest" =>
        \A state \in LightArgs :
            \E s2 \in {switchLights(scene, state)} :
                /\ s2.objects = scene.objects
                /\ s2.cursor = scene.cursor
                /\ s2.raftPos = scene.raftPos
                /\ s2.playerLocation = scene.playerLocation
                /\ s2.lights = scene.lights
                /\ \A k \in DOMAIN s2.lamps : s2.lamps[k].groupLabel = "lamps"

\* The lights are shown in a scene whose objects are all added and whose
\* player has been teleported.
C26_Witness ==
    /\ variant # "oldest"
    /\ preparing = {}
    /\ scene.objects # {}
    /\ scene.lightsShown
    /\ scene.lamps # <<>>
    /\ scene.playerLocation # Origin

====
